---- MODULE Spec2Model ----
(***************************************************************************)
(* ts-fileserver: FileServer.ServeHTTP (app.go) as a state machine.        *)
(*                                                                         *)
(* A path is a sequence of one-character strings, so that path.Join and    *)
(* strings.HasPrefix are computed character by character as the code does. *)
(* A byte of a file or of a body is a one-character string as well; the    *)
(* zero byte the kernel fills holes with is NUL.  The file system is a     *)
(* function from the cleaned absolute paths that exist to their nodes.     *)
(* Requests run concurrently and interleave at the file-system calls.      *)
(***************************************************************************)
EXTENDS Integers, Sequences, FiniteSets, TLC

----------------------------------------------------------------------------
(* Bounds of the model *)

\* number of requests the server receives in one behaviour
MaxRequests == 3
\* bytes moved by one step of a streaming copy (the code's buffer, scaled)
BufSize == 2

\* the requests that can be in flight at the same time
Reqs == {1, 2}

----------------------------------------------------------------------------
(* Strings *)

SLASH == "/"
NUL == "NUL"

\* the byte order of the characters that occur in names
Alphabet == <<".", "/", "d", "f", "s", "x">>

Ord(c) == CHOOSE i \in 1..Len(Alphabet) : Alphabet[i] = c

Min(a, b) == IF a < b THEN a ELSE b

\* strings.HasPrefix
HasPrefix(s, prefix) ==
    /\ Len(s) >= Len(prefix)
    /\ SubSeq(s, 1, Len(prefix)) = prefix

\* s < t in byte order (how os.ReadDir orders the names)
RECURSIVE StrLess(_, _)
StrLess(s, t) ==
    IF t = <<>> THEN FALSE
    ELSE IF s = <<>> THEN TRUE
    ELSE IF Head(s) # Head(t) THEN Ord(Head(s)) < Ord(Head(t))
    ELSE StrLess(Tail(s), Tail(t))

\* the elements of s split at every "/" (strings.Split(s, "/"))
RECURSIVE SplitFrom(_, _, _)
SplitFrom(s, cur, acc) ==
    IF s = <<>> THEN Append(acc, cur)
    ELSE IF Head(s) = SLASH THEN SplitFrom(Tail(s), <<>>, Append(acc, cur))
    ELSE SplitFrom(Tail(s), Append(cur, Head(s)), acc)

Split(s) == SplitFrom(s, <<>>, <<>>)

\* the segments joined again behind a leading "/" each
RECURSIVE Rooted(_)
Rooted(segs) ==
    IF segs = <<>> THEN <<>>
    ELSE <<SLASH>> \o Head(segs) \o Rooted(Tail(segs))

\* path.Clean of a rooted path: empty and "." elements are dropped, ".."
\* removes the element before it, and ".." at the root is dropped.
RECURSIVE CleanSegs(_, _)
CleanSegs(segs, out) ==
    IF segs = <<>> THEN out
    ELSE LET e == Head(segs) IN
         IF e = <<>> \/ e = <<".">> THEN CleanSegs(Tail(segs), out)
         ELSE IF e = <<".", ".">>
              THEN CleanSegs(Tail(segs),
                             IF out = <<>> THEN out
                             ELSE SubSeq(out, 1, Len(out) - 1))
         ELSE CleanSegs(Tail(segs), Append(out, e))

Clean(p) ==
    LET segs == CleanSegs(Split(p), <<>>) IN
    IF segs = <<>> THEN <<SLASH>> ELSE Rooted(segs)

\* path.Join(a, b): the non-empty elements joined by "/", then cleaned
Join(a, b) ==
    IF a = <<>> THEN (IF b = <<>> THEN <<>> ELSE Clean(b))
    ELSE IF b = <<>> THEN Clean(a)
    ELSE Clean(a \o <<SLASH>> \o b)

\* path.Dir of a cleaned rooted path: the path without its last element
Dir(p) ==
    LET segs == CleanSegs(Split(p), <<>>) IN
    IF Len(segs) <= 1 THEN <<SLASH>>
    ELSE Rooted(SubSeq(segs, 1, Len(segs) - 1))

\* the last element of a cleaned rooted path
Base(p) ==
    LET segs == CleanSegs(Split(p), <<>>) IN
    IF segs = <<>> THEN <<SLASH>> ELSE segs[Len(segs)]

----------------------------------------------------------------------------
(* The file system *)

\* a node: a directory, or a regular file with its bytes; mode says whether
\* the file may be opened for reading and writing
DirNode == [dir |-> TRUE, data |-> <<>>, mode |-> TRUE]
FileNode(bytes, m) == [dir |-> FALSE, data |-> bytes, mode |-> m]

Exists(f, p) == p \in DOMAIN f
IsDir(f, p) == Exists(f, p) /\ f[p].dir
IsFile(f, p) == Exists(f, p) /\ ~f[p].dir

ENOENT == "no such file or directory"
ENOTDIR == "not a directory"
EISDIR == "is a directory"
EACCES == "permission denied"
NoErr == ""

\* the error of walking to p: every element before the last is a directory
RECURSIVE LookupErr(_, _)
LookupErr(f, p) ==
    IF Exists(f, p) THEN NoErr
    ELSE IF p = <<SLASH>> THEN ENOENT
    ELSE LET e == LookupErr(f, Dir(p)) IN
         IF e # NoErr THEN e
         ELSE IF IsDir(f, Dir(p)) THEN ENOENT ELSE ENOTDIR

\* os.Stat: the node's kind and size, or the error
OsStat(f, p) ==
    IF Exists(f, p)
    THEN [err |-> NoErr, exists |-> TRUE, dir |-> f[p].dir, size |-> Len(f[p].data)]
    ELSE [err |-> LookupErr(f, p), exists |-> FALSE, dir |-> FALSE, size |-> 0]

\* os.MkdirAll: nothing to do for a directory, an error for a file, and
\* otherwise the parents first and then the directory itself
RECURSIVE OsMkdirAll(_, _)
OsMkdirAll(f, p) ==
    IF Exists(f, p)
    THEN (IF f[p].dir THEN [err |-> NoErr, fs |-> f] ELSE [err |-> ENOTDIR, fs |-> f])
    ELSE LET up == OsMkdirAll(f, Dir(p)) IN
         IF up.err # NoErr THEN [err |-> up.err, fs |-> f]
         ELSE [err |-> NoErr, fs |-> (p :> DirNode) @@ up.fs]

\* a create that opens without O_TRUNC
OsCreate_keep(f, p) ==
    IF Exists(f, p)
    THEN (IF f[p].dir THEN [err |-> EISDIR, fs |-> f]
          ELSE IF ~f[p].mode THEN [err |-> EACCES, fs |-> f]
          ELSE [err |-> NoErr, fs |-> f])
    ELSE IF ~IsDir(f, Dir(p)) THEN [err |-> ENOENT, fs |-> f]
    ELSE [err |-> NoErr, fs |-> (p :> [dir |-> FALSE, data |-> <<>>, mode |-> TRUE]) @@ f]

\* os.Create: open with O_RDWR|O_CREATE|O_TRUNC
OsCreate(f, p) ==
    IF Exists(f, p)
    THEN (IF f[p].dir THEN [err |-> EISDIR, fs |-> f]
          ELSE IF ~f[p].mode THEN [err |-> EACCES, fs |-> f]
          ELSE [err |-> NoErr, fs |-> [f EXCEPT ![p].data = <<>>]])
    ELSE IF ~IsDir(f, Dir(p)) THEN [err |-> LookupErr(f, p), fs |-> f]
    ELSE [err |-> NoErr, fs |-> (p :> FileNode(<<>>, TRUE)) @@ f]

\* os.Open: open for reading
OsOpenErr(f, p) ==
    IF ~Exists(f, p) THEN LookupErr(f, p)
    ELSE IF ~f[p].dir /\ ~f[p].mode THEN EACCES
    ELSE NoErr

\* the bytes a read of at most n bytes at offset off returns
ReadAt(bytes, off, n) ==
    IF off >= Len(bytes) THEN <<>>
    ELSE SubSeq(bytes, off + 1, Min(Len(bytes), off + n))

\* the file's bytes after a write of chunk at offset off: the gap between
\* the end of the file and off is filled with zero bytes
RECURSIVE Zeros(_)
Zeros(n) == IF n <= 0 THEN <<>> ELSE <<NUL>> \o Zeros(n - 1)

\* a write that ignores the offset and writes at the start of the file
WriteAt_start(bytes, off, chunk) ==
    chunk \o SubSeq(bytes, Len(chunk) + 1, Len(bytes))

WriteAt(bytes, off, chunk) ==
    LET end == off + Len(chunk) IN
    SubSeq(bytes, 1, Min(off, Len(bytes)))
        \o Zeros(off - Len(bytes))
        \o chunk
        \o SubSeq(bytes, end + 1, Len(bytes))

\* the names in directory p
Entries(f, p) == {Base(q) : q \in {q \in DOMAIN f : q # <<SLASH>> /\ Dir(q) = p}}

\* os.ReadDir: the names sorted by filename
RECURSIVE SortNames(_)
SortNames(names) ==
    IF names = {} THEN <<>>
    ELSE LET least == CHOOSE n \in names : \A m \in names \ {n} : StrLess(n, m) IN
         <<least>> \o SortNames(names \ {least})

----------------------------------------------------------------------------
(* The server and its requests *)

VARIABLES
    root,       \* FileServer.root: the absolute base directory
    writable,   \* FileServer.writable
    fs,         \* the host file system
    req,        \* per request: the handler's locals, position and response
    started,    \* number of requests received
    hist        \* history of the run: which requests overlapped, which
                \* files changed under a download, the last upload alone

vars == <<root, writable, fs, req, started, hist>>

StatusOK == 200
StatusBadRequest == 400
StatusForbidden == 403
StatusInternalServerError == 500

MsgNiceTry == "nice try!"
MsgForbidden == "i'm afraid i can't do that"
MsgExistingFolder == "path should not be a existing folder"
MsgCantStat == "can't stat item: "
MsgCantList == "can't list folder entries: "
MsgCantOpen == "can't open file to be read: "
MsgCantMkdir == "can't create parent directory: "
MsgCantCreate == "can't create file: "

\* the parts of HTML_PRELUDE
TokHead == "<head>"
TokUploadScript == "<script>upload()</script>"
TokFileInput == "<input type=file>"
TokUploadButton == "<button>Upload</button>"
TokStatus == "<p id=status>"
TokList == "<ul>"

HTML_PRELUDE ==
    <<TokHead, TokUploadScript, TokFileInput, TokUploadButton, TokStatus, TokList>>

\* FileServer.WriteHTMLPrelude: what it writes, given the server's writable
\* flag (the method writes the constant whatever the flag is)
WriteHTMLPrelude(isWritable) == HTML_PRELUDE

\* a *os.File: nil (not valid), or open or closed, with its offset
NilFile == [valid |-> FALSE, open |-> FALSE, off |-> 0]
OpenedFile == [valid |-> TRUE, open |-> TRUE, off |-> 0]

\* a Close that leaves the file open
FileClose_leak(fh) == fh

\* (*os.File).Close: a nil file is left alone (Close returns ErrInvalid)
FileClose(fh) == IF fh.valid THEN [fh EXCEPT !.open = FALSE] ELSE fh

\* whether (*os.File).Close panics on this file: it checks for nil first
ClosePanics(fh) == FALSE

\* a copy that does not look at the file it writes to
FileWritable_unchecked(fh) == TRUE

\* whether a copy into this file can write: (*os.File).ReadFrom checks
\* the file first and returns ErrInvalid for a nil file
FileWritable(fh) == fh.valid /\ fh.open

IdleReq ==
    [pc |-> "idle", method |-> "", path |-> <<>>, item |-> <<>>, body |-> <<>>,
     size |-> 0, fh |-> NilFile, deferClose |-> FALSE, panicked |-> FALSE,
     status |-> 0, nwh |-> 0, clen |-> -1, out |-> <<>>]

\* w.WriteHeader(code) and fmt.Fprintf(w, text): the first status code stays
Respond(rq, code, text) ==
    [rq EXCEPT !.status = IF rq.status = 0 THEN code ELSE rq.status,
               !.nwh = rq.nwh + 1,
               !.out = rq.out \o text]

\* the handler returns: the deferred Close runs, and the server sends
\* status 200 when the handler has set none
Return(rq) ==
    [rq EXCEPT !.pc = "done",
               !.fh = IF rq.deferClose THEN FileClose(rq.fh) ELSE rq.fh,
               !.panicked = rq.deferClose /\ ClosePanics(rq.fh),
               !.status = IF rq.status = 0 THEN StatusOK ELSE rq.status]

\* line 155: the containment check of the handler
PrefixOk(item, base) == HasPrefix(item, base)

\* a writability check that is never taken
WriteForbidden_never(method, w) == FALSE

\* a writability check on the wrong method
WriteForbidden_get(method, w) == method = "GET" /\ ~w

\* line 193: a POST to a server that is not writable
WriteForbidden(method, w) == method = "POST" /\ ~w

\* a Content-Length that counts one byte too many
ContentLength_plus(size) == size + 1

\* line 186: the Content-Length of a download
ContentLength(size) == size

\* a folder check that is never taken
TargetIsFolder_never(st) == FALSE

\* line 200: the upload's target exists and is a directory
TargetIsFolder(st) == st.exists /\ st.dir

\* fmt.Fprintf(w, text) with no WriteHeader before it: the first write
\* sends status 200
Write(rq, text) ==
    [rq EXCEPT !.status = IF rq.status = 0 THEN StatusOK ELSE rq.status,
               !.out = rq.out \o text]

\* lines 176-178: one list item per entry, linked to the request path
\* joined with the entry's name
RECURSIVE ListItems(_, _)
ListItems(urlPath, names) ==
    IF names = <<>> THEN <<>>
    ELSE <<"<li><a href=">> \o Join(urlPath, Head(names)) \o <<">">>
            \o Head(names) \o <<"</a></li>">>
            \o ListItems(urlPath, Tail(names))

\* lines 174-178: the listing page of directory item
ListingPage(f, isWritable, urlPath, item) ==
    WriteHTMLPrelude(isWritable)
        \o <<"<h1>Files in ">> \o item \o <<"</h1>">>
        \o ListItems(urlPath, SortNames(Entries(f, item)))

----------------------------------------------------------------------------
(* The inputs *)

Methods == {"GET", "POST", "PUT"}

DotDot == <<".", ".">>

\* the request paths (r.URL.Path): the base, a file in it, a nested path,
\* a path below that file, a path that returns to the base, the parent of
\* the base, and a sibling of the base whose name starts with the base's
ReqPaths ==
    { <<SLASH>>,
      Rooted(<< <<"f">> >>),
      Rooted(<< <<"d">>, <<"f">> >>),
      Rooted(<< <<"f">>, <<"d">> >>),
      Rooted(<< <<"d">>, DotDot >>),
      Rooted(<< DotDot >>),
      Rooted(<< DotDot, <<"s", "x">> >>) }

BodyShort == <<"p">>
BodyLong == <<"x", "y", "z">>
Bodies == {BodyShort, BodyLong}

BodiesOf(m) == IF m = "POST" THEN Bodies ELSE {<<>>}

OldData == <<"a", "b", "c">>

BaseDir == <<SLASH, "s">>
Sibling == <<SLASH, "s", "x">>
FilePath == <<SLASH, "s", SLASH, "f">>

EmptyTree == (<<SLASH>> :> DirNode) @@ (BaseDir :> DirNode) @@ (Sibling :> DirNode)

InitTrees ==
    { EmptyTree,
      (FilePath :> FileNode(OldData, TRUE)) @@ EmptyTree,
      (FilePath :> FileNode(OldData, FALSE)) @@ EmptyTree }

----------------------------------------------------------------------------
(* History *)

Active(rq) == rq.pc \notin {"idle", "done"}

NoUpload == [valid |-> FALSE, item |-> <<>>, body |-> <<>>]

\* request r created, truncated or wrote file p: every download of p that
\* has taken its size is disturbed, and the last upload alone, when it was
\* of p, is no longer what the file holds
Touched(r, p) ==
    [hist EXCEPT
        !.disturbed = [q \in Reqs |->
            IF /\ q # r
               /\ req[q].method = "GET"
               /\ req[q].item = p
               /\ req[q].pc \in {"open", "copy"}
            THEN TRUE ELSE hist.disturbed[q]],
        !.rt = IF hist.rt.valid /\ hist.rt.item = p THEN NoUpload ELSE hist.rt]

----------------------------------------------------------------------------
(* The actions *)

Init ==
    /\ root = BaseDir
    /\ writable \in BOOLEAN
    /\ fs \in InitTrees
    /\ req = [r \in Reqs |-> IdleReq]
    /\ started = 0
    /\ hist = [solo |-> [r \in Reqs |-> TRUE],
               disturbed |-> [r \in Reqs |-> FALSE],
               rt |-> NoUpload]

\* lines 151-160, 193-198: the request arrives; the path is joined and
\* checked, and the method decides what follows
Dispatch(rq, base, isWritable) ==
    IF ~PrefixOk(rq.item, base)
    THEN Return(Respond(rq, StatusBadRequest, <<MsgNiceTry>>))
    ELSE IF rq.method = "GET" THEN [rq EXCEPT !.pc = "stat"]
    ELSE IF WriteForbidden(rq.method, isWritable)
    THEN Return(Respond(rq, StatusForbidden, <<MsgForbidden>>))
    ELSE IF rq.method = "POST" THEN [rq EXCEPT !.pc = "pstat"]
    ELSE Return(rq)

Begin(r) ==
    /\ ~Active(req[r])
    /\ started < MaxRequests
    /\ \E m \in Methods, p \in ReqPaths :
         \E b \in BodiesOf(m) :
            LET rq == [IdleReq EXCEPT !.method = m, !.path = p,
                                      !.item = Join(root, p), !.body = b]
            IN req' = [req EXCEPT ![r] = Dispatch(rq, root, writable)]
    /\ started' = started + 1
    /\ hist' = [hist EXCEPT
            !.solo = [q \in Reqs |->
                IF q = r THEN \A o \in Reqs \ {r} : ~Active(req[o])
                ELSE IF Active(req[q]) THEN FALSE
                ELSE hist.solo[q]],
            !.disturbed[r] = FALSE]
    /\ UNCHANGED <<root, writable, fs>>

\* lines 161-167: GET stats the item
GetStat(r) ==
    /\ req[r].pc = "stat"
    /\ LET rq == req[r]
           st == OsStat(fs, rq.item)
       IN req' = [req EXCEPT ![r] =
            IF st.err # NoErr
            THEN Return(Respond(rq, StatusInternalServerError, <<MsgCantStat, st.err>>))
            ELSE IF st.dir THEN [rq EXCEPT !.pc = "readdir"]
            ELSE [rq EXCEPT !.pc = "open", !.size = st.size]]
    /\ UNCHANGED <<root, writable, fs, started, hist>>

\* lines 168-178: GET of a directory lists it
GetReadDir(r) ==
    /\ req[r].pc = "readdir"
    /\ LET rq == req[r]
       IN req' = [req EXCEPT ![r] =
            IF ~IsDir(fs, rq.item)
            THEN Return(Respond(rq, StatusInternalServerError, <<MsgCantList, ENOTDIR>>))
            ELSE Return(Write(rq, ListingPage(fs, writable, rq.path, rq.item)))]
    /\ UNCHANGED <<root, writable, fs, started, hist>>

\* lines 180-189: GET of a file opens it and sets the headers
GetOpen(r) ==
    /\ req[r].pc = "open"
    /\ LET rq == req[r]
           err == OsOpenErr(fs, rq.item)
       IN req' = [req EXCEPT ![r] =
            IF err # NoErr
            THEN Return(Respond(rq, StatusInternalServerError, <<MsgCantOpen, err>>))
            ELSE [rq EXCEPT !.pc = "copy", !.fh = OpenedFile,
                            !.clen = ContentLength(rq.size), !.deferClose = TRUE]]
    /\ UNCHANGED <<root, writable, fs, started, hist>>

\* line 190: one round of io.CopyBuffer(w, f, buf): a read at the file's
\* offset, and the write of what was read to the response, which refuses
\* bytes beyond the declared Content-Length
GetCopy(r) ==
    /\ req[r].pc = "copy"
    /\ LET rq == req[r]
           chunk == ReadAt(fs[rq.item].data, rq.fh.off, BufSize)
       IN req' = [req EXCEPT ![r] =
            IF chunk = <<>> THEN Return(rq)
            ELSE IF Len(rq.out) + Len(chunk) > rq.clen THEN Return(rq)
            ELSE [Write(rq, chunk) EXCEPT !.fh.off = rq.fh.off + Len(chunk)]]
    /\ UNCHANGED <<root, writable, fs, started, hist>>

\* lines 199-204: POST stats the item
PostStat(r) ==
    /\ req[r].pc = "pstat"
    /\ LET rq == req[r]
           st == OsStat(fs, rq.item)
       IN req' = [req EXCEPT ![r] =
            IF TargetIsFolder(st)
            THEN Return(Respond(rq, StatusBadRequest, <<MsgExistingFolder>>))
            ELSE [rq EXCEPT !.pc = "mkdir"]]
    /\ UNCHANGED <<root, writable, fs, started, hist>>

\* lines 205-209: POST creates the parent directories
PostMkdirAll(r) ==
    /\ req[r].pc = "mkdir"
    /\ LET rq == req[r]
           res == OsMkdirAll(fs, Dir(rq.item))
       IN /\ req' = [req EXCEPT ![r] =
                IF res.err # NoErr
                THEN Return(Respond(rq, StatusInternalServerError, <<MsgCantMkdir, res.err>>))
                ELSE [rq EXCEPT !.pc = "create"]]
          /\ fs' = res.fs
    /\ UNCHANGED <<root, writable, started, hist>>

\* lines 210-215: POST creates the file; the Close is deferred before the
\* error is looked at, and the error branch does not return
PostCreate(r) ==
    /\ req[r].pc = "create"
    /\ LET rq == req[r]
           res == OsCreate(fs, rq.item)
       IN /\ req' = [req EXCEPT ![r] =
                IF res.err # NoErr
                THEN [Respond(rq, StatusInternalServerError, <<MsgCantCreate, res.err>>)
                        EXCEPT !.pc = "pcopy", !.fh = NilFile, !.deferClose = TRUE]
                ELSE [rq EXCEPT !.pc = "pcopy", !.fh = OpenedFile, !.deferClose = TRUE]]
          /\ fs' = res.fs
          /\ hist' = IF res.err = NoErr THEN Touched(r, rq.item) ELSE hist
    /\ UNCHANGED <<root, writable, started>>

\* lines 216-217: one round of io.CopyBuffer(f, r.Body, buf): a read of the
\* body and the write of what was read at the file's offset
PostCopy(r) ==
    /\ req[r].pc = "pcopy"
    /\ LET rq == req[r]
           chunk == ReadAt(rq.body, rq.fh.off, BufSize)
       IN IF ~FileWritable(rq.fh) \/ chunk = <<>>
          THEN /\ req' = [req EXCEPT ![r] = Return(rq)]
               /\ fs' = fs
               /\ hist' = IF FileWritable(rq.fh) /\ hist.solo[r]
                          THEN [hist EXCEPT !.rt = [valid |-> TRUE, item |-> rq.item,
                                                    body |-> rq.body]]
                          ELSE hist
          ELSE /\ req' = [req EXCEPT ![r].fh.off = rq.fh.off + Len(chunk)]
               /\ fs' = [fs EXCEPT ![rq.item].data = WriteAt(@, rq.fh.off, chunk)]
               /\ hist' = Touched(r, rq.item)
    /\ UNCHANGED <<root, writable, started>>

Next ==
    \E r \in Reqs :
        \/ Begin(r)
        \/ GetStat(r)
        \/ GetReadDir(r)
        \/ GetOpen(r)
        \/ GetCopy(r)
        \/ PostStat(r)
        \/ PostMkdirAll(r)
        \/ PostCreate(r)
        \/ PostCopy(r)

Spec == Init /\ [][Next]_vars

----------------------------------------------------------------------------
(* What the claims speak of *)

\* p is base, or lies below it
Contained(p, base) == p = base \/ HasPrefix(p, base \o <<SLASH>>)

\* every directory above p, up to the root of the file system, exists
RECURSIVE ParentsAreDirs(_, _)
ParentsAreDirs(f, p) ==
    IF p = <<SLASH>> THEN TRUE
    ELSE IsDir(f, Dir(p)) /\ ParentsAreDirs(f, Dir(p))

\* request r takes a step
Steps(r) == req'[r] # req[r]

\* request r's handler returns in this step
Returns(r) == Steps(r) /\ req'[r].pc = "done"

NiceTry(rq) == rq.status = StatusBadRequest /\ rq.out = <<MsgNiceTry>>
Forbidden(rq) == rq.status = StatusForbidden /\ rq.out = <<MsgForbidden>>
ExistingFolder(rq) == rq.status = StatusBadRequest /\ rq.out = <<MsgExistingFolder>>

Received(rq) == rq.pc # "idle"
Done(rq) == rq.pc = "done"

\* the response is a listing page
IsListing(rq) ==
    /\ Done(rq) /\ rq.method = "GET" /\ rq.status = StatusOK
    /\ rq.out # <<>> /\ rq.out[1] = TokHead

HasUploadForm(out) ==
    /\ \E i \in 1..Len(out) : out[i] = TokFileInput
    /\ \E i \in 1..Len(out) : out[i] = TokUploadButton
    /\ \E i \in 1..Len(out) : out[i] = TokUploadScript

\* the response is a download
IsDownload(rq) == rq.method = "GET" /\ rq.status = StatusOK /\ rq.clen >= 0

\* the upload of request r got its file
Uploaded(rq) == Done(rq) /\ rq.method = "POST" /\ rq.fh.valid

----------------------------------------------------------------------------
(* C1 *)

\* C1: a request that is not rejected with 400 "nice try!" has a resolved
\* path that is the base or starts with the base followed by "/".
C1_Containment ==
    \A r \in Reqs :
        Received(req[r]) /\ ~NiceTry(req[r]) => Contained(req[r].item, root)

----------------------------------------------------------------------------
(* C2 *)

\* C2 as stated: on a server that is not writable every POST, whatever its
\* path, is answered 403 "i'm afraid i can't do that".
C2_EveryPostForbidden ==
    \A r \in Reqs :
        ~writable /\ Received(req[r]) /\ req[r].method = "POST"
            => Done(req[r]) /\ Forbidden(req[r])

\* C2, amended: on a server that is not writable a POST whose joined path
\* has the base as a prefix is answered 403 "i'm afraid i can't do that",
\* and a POST whose joined path has not is answered 400 "nice try!": the
\* prefix check comes before the writability check.
C2_PostForbiddenAfterPrefixCheck ==
    \A r \in Reqs :
        ~writable /\ Received(req[r]) /\ req[r].method = "POST"
            => /\ Done(req[r])
               /\ IF HasPrefix(req[r].item, root)
                  THEN Forbidden(req[r]) ELSE NiceTry(req[r])

C2_Witness ==
    /\ ~writable
    /\ \E r, q \in Reqs :
         /\ req[r].method = "POST" /\ Forbidden(req[r])
         /\ req[q].method = "POST" /\ NiceTry(req[q])

----------------------------------------------------------------------------
(* C3 *)

\* C3: on a server that is not writable no step of any request, in any
\* interleaving, changes the file system.
C3_ReadOnlyKeepsFiles == [][~writable => fs' = fs]_vars

C3_Witness ==
    /\ ~writable
    /\ started = MaxRequests
    /\ \A r \in Reqs : Done(req[r]) /\ req[r].method = "POST"
    /\ \E r \in Reqs : req[r].body = BodyLong /\ ~Exists(fs, req[r].item)

----------------------------------------------------------------------------
(* C4 *)

\* C4 as stated: with writing enabled, a POST that ran alone to a contained
\* path that was not an existing directory leaves, when it returns, a file
\* at that path that holds exactly the body, below directories.
C4_UploadAlwaysLeavesFile ==
    [][\A r \in Reqs :
        /\ Returns(r) /\ req'[r].method = "POST" /\ writable /\ hist.solo[r]
        /\ Contained(req'[r].item, root) /\ ~ExistingFolder(req'[r])
        => /\ IsFile(fs', req'[r].item)
           /\ fs'[req'[r].item].data = req'[r].body
           /\ ParentsAreDirs(fs', req'[r].item)]_vars

\* C4, amended: with writing enabled, a POST that ran alone to a contained
\* path that was not an existing directory, and whose MkdirAll and Create
\* succeeded (status 200), leaves a file at that path that holds exactly the
\* body, below directories; and a GET of that path that runs alone after
\* it, with the file untouched in between, is answered 200 with exactly
\* those bytes.
C4_UploadRoundTrip ==
    [][\A r \in Reqs :
        /\ ( /\ Returns(r) /\ req'[r].method = "POST" /\ writable /\ hist.solo[r]
             /\ Contained(req'[r].item, root) /\ ~ExistingFolder(req'[r])
             /\ req'[r].status = StatusOK
             => /\ IsFile(fs', req'[r].item)
                /\ fs'[req'[r].item].data = req'[r].body
                /\ ParentsAreDirs(fs', req'[r].item)
                /\ hist'.rt = [valid |-> TRUE, item |-> req'[r].item,
                               body |-> req'[r].body] )
        /\ ( /\ Returns(r) /\ req'[r].method = "GET" /\ hist.solo[r]
             /\ hist.rt.valid /\ hist.rt.item = req'[r].item
             => /\ req'[r].status = StatusOK
                /\ req'[r].out = hist.rt.body )]_vars

C4_Witness ==
    \E r, q \in Reqs :
        /\ r # q
        /\ Uploaded(req[r]) /\ hist.solo[r] /\ req[r].body = BodyShort
        /\ req[r].item = FilePath
        /\ hist.rt.valid /\ hist.rt.item = FilePath
        /\ Done(req[q]) /\ req[q].method = "GET" /\ hist.solo[q]
        /\ req[q].item = FilePath /\ req[q].out = BodyShort

----------------------------------------------------------------------------
(* C5 *)

\* C5 as stated: with writing enabled, a POST whose resolved path is an
\* existing directory is answered 400 "path should not be a existing
\* folder", and the file system is unchanged.
C5_FolderTargetRefused ==
    [][\A r \in Reqs :
        /\ Returns(r) /\ req'[r].method = "POST" /\ writable
        /\ req[r].pc \in {"idle", "done", "pstat"}
        /\ IsDir(fs, req'[r].item)
        => ExistingFolder(req'[r]) /\ fs' = fs]_vars

\* C5, amended: with writing enabled, a POST whose joined path has the base
\* as a prefix and is an existing directory goes on to its stat, and is
\* answered there 400 "path should not be a existing folder" with the file
\* system unchanged and no file opened; a POST whose joined path is a
\* directory outside the base (the parent of the base) is answered 400
\* "nice try!" instead.
C5_FolderTargetRefusedInBase ==
    [][\A r \in Reqs :
        /\ Steps(r) /\ req'[r].method = "POST" /\ writable
        /\ req[r].pc \in {"idle", "done", "pstat"}
        /\ IsDir(fs, req'[r].item)
        => /\ fs' = fs
           /\ req'[r].fh = NilFile
           /\ IF ~HasPrefix(req'[r].item, root)
              THEN Done(req'[r]) /\ NiceTry(req'[r])
              ELSE IF req[r].pc = "pstat"
              THEN Done(req'[r]) /\ ExistingFolder(req'[r])
              ELSE req'[r].pc = "pstat"]_vars

C5_Witness ==
    /\ writable
    /\ \E r \in Reqs :
         /\ Done(req[r]) /\ req[r].method = "POST" /\ req[r].item = root
         /\ ExistingFolder(req[r])

----------------------------------------------------------------------------
(* C6 *)

\* C6 as stated: a GET of a regular file that is answered 200 has, when it
\* returns, in every interleaving, a Content-Length equal to the number of
\* bytes streamed and a body equal to the file's contents.
C6_DownloadExact ==
    [][\A r \in Reqs :
        Returns(r) /\ IsDownload(req'[r])
        => /\ req'[r].clen = Len(req'[r].out)
           /\ req'[r].out = fs[req'[r].item].data]_vars

\* C6, amended: a GET of a regular file that is answered 200, during which
\* (from its stat to the end of its copy) no request creates, truncates or
\* writes that file, has a Content-Length equal to the number of bytes
\* streamed and a body equal to the file's contents.
C6_DownloadExactWhenUndisturbed ==
    [][\A r \in Reqs :
        Returns(r) /\ IsDownload(req'[r]) /\ ~hist.disturbed[r]
        => /\ req'[r].clen = Len(req'[r].out)
           /\ req'[r].out = fs[req'[r].item].data]_vars

C6_Witness ==
    \E r \in Reqs :
        /\ Done(req[r]) /\ IsDownload(req[r]) /\ ~hist.disturbed[r]
        /\ ~hist.solo[r]
        /\ req[r].out = OldData /\ req[r].clen = Len(OldData)

----------------------------------------------------------------------------
(* C7 *)

\* C7: when a handler has returned, the file it opened is closed and no
\* Close has panicked, on every path; a file is open only during a copy.
C7_HandlesClosed ==
    \A r \in Reqs :
        /\ Done(req[r]) => ~req[r].fh.open /\ ~req[r].panicked
        /\ req[r].fh.open => req[r].pc \in {"copy", "pcopy"} /\ req[r].deferClose

C7_Witness ==
    \E r, q \in Reqs :
        /\ Done(req[r]) /\ req[r].method = "GET" /\ req[r].fh.valid
        /\ Done(req[q]) /\ req[q].method = "POST" /\ ~req[q].fh.valid
        /\ req[q].deferClose
        /\ req[q].status = StatusInternalServerError

----------------------------------------------------------------------------
(* C8 *)

\* C8: with writing enabled, a POST whose MkdirAll fails returns at once
\* with status 500 and "can't create parent directory: <error>"; a POST
\* whose Create fails sets status 500 and "can't create file: <error>", and
\* its next step returns; in both the status is set once, the file system
\* is unchanged and no byte of the body is written.
C8_CreateFailure ==
    [][\A r \in Reqs :
        /\ ( /\ Steps(r) /\ req[r].pc = "mkdir"
             /\ OsMkdirAll(fs, Dir(req[r].item)).err # NoErr
             => /\ req'[r].pc = "done"
                /\ req'[r].status = StatusInternalServerError
                /\ req'[r].out = <<MsgCantMkdir, OsMkdirAll(fs, Dir(req[r].item)).err>>
                /\ req'[r].nwh = 1
                /\ req'[r].fh.off = 0
                /\ fs' = fs )
        /\ ( /\ Steps(r) /\ req[r].pc = "create"
             /\ OsCreate(fs, req[r].item).err # NoErr
             => /\ req'[r].pc = "pcopy"
                /\ req'[r].status = StatusInternalServerError
                /\ req'[r].out = <<MsgCantCreate, OsCreate(fs, req[r].item).err>>
                /\ req'[r].nwh = 1
                /\ fs' = fs )
        /\ ( /\ Steps(r) /\ req[r].pc = "pcopy"
             /\ req[r].status = StatusInternalServerError
             => /\ req'[r].pc = "done"
                /\ req'[r].status = StatusInternalServerError
                /\ req'[r].out = req[r].out
                /\ req'[r].nwh = 1
                /\ req'[r].fh.off = 0
                /\ fs' = fs )]_vars

C8_Witness ==
    \E r, q \in Reqs :
        /\ writable
        /\ Done(req[r]) /\ req[r].method = "POST"
        /\ req[r].out = <<MsgCantCreate, EACCES>> /\ req[r].nwh = 1
        /\ Done(req[q]) /\ req[q].method = "POST"
        /\ req[q].out = <<MsgCantMkdir, ENOTDIR>> /\ req[q].nwh = 1

----------------------------------------------------------------------------
(* C9 *)

\* C9: a listing page contains the upload form (file input, Upload button
\* and upload script) if and only if the server is writable.
C9_UploadFormIffWritable ==
    \A r \in Reqs :
        IsListing(req[r]) => (HasUploadForm(req[r].out) <=> writable)

----------------------------------------------------------------------------
(* C10 *)

\* C10 as stated: when two POSTs with different bodies to the same path
\* overlapped and both have returned, the file holds exactly one of the two
\* bodies.
C10_OneWholeBody ==
    \A r, q \in Reqs :
        /\ r # q /\ Uploaded(req[r]) /\ Uploaded(req[q])
        /\ req[r].item = req[q].item /\ req[r].body # req[q].body
        /\ ~hist.solo[r] /\ ~hist.solo[q]
        => fs[req[r].item].data \in {req[r].body, req[q].body}

\* C10, amended: when two POSTs to the same path have both returned, the
\* file is no longer than the longer body and holds at every offset the
\* byte one of the two bodies has at that offset, or a zero byte; it need
\* not be one whole body.
C10_BytesOfEitherBody ==
    \A r, q \in Reqs :
        /\ r # q /\ Uploaded(req[r]) /\ Uploaded(req[q])
        /\ req[r].item = req[q].item
        => LET data == fs[req[r].item].data
               a == req[r].body
               b == req[q].body
           IN /\ Len(data) <= (IF Len(a) > Len(b) THEN Len(a) ELSE Len(b))
              /\ \A i \in 1..Len(data) :
                    \/ i <= Len(a) /\ data[i] = a[i]
                    \/ i <= Len(b) /\ data[i] = b[i]
                    \/ data[i] = NUL

C10_Witness ==
    \E r, q \in Reqs :
        /\ r # q /\ Uploaded(req[r]) /\ Uploaded(req[q])
        /\ req[r].item = req[q].item /\ req[r].body # req[q].body
        /\ ~hist.solo[r] /\ ~hist.solo[q]
        /\ fs[req[r].item].data \notin {req[r].body, req[q].body}

====
